---- MODULE Spec2Model ----
(***************************************************************************)
(* Model of src/middleware.ts: the request-time access guard of the docs   *)
(* site.  One evaluation of middleware(request) is a small state machine   *)
(* with two suspension points (await fetch, await authResponse.json()).    *)
(* The environment supplies the inbound request, the outcome of the        *)
(* identity call, and the follow-up requests the guard itself causes       *)
(* (the redirect being followed, the identity call arriving at the same    *)
(* origin).                                                                *)
(***************************************************************************)
EXTENDS Integers, Sequences, FiniteSets, TLC

VARIABLES evals

vars == << evals >>

(***************************************************************************)
(* Bounds of the model.                                                    *)
(***************************************************************************)
\* longest chain of follow-up evaluations the model lets the environment start
MaxDepth == 2
\* longest `docs` array in a modelled identity response
MaxDocs == 1

(***************************************************************************)
(* Strings: String.prototype.startsWith / endsWith / includes.             *)
(***************************************************************************)
startsWith(s, p) == Len(s) >= Len(p) /\ SubSeq(s, 1, Len(p)) = p

endsWith(s, p) == Len(s) >= Len(p) /\ SubSeq(s, Len(s) - Len(p) + 1, Len(s)) = p

includes(s, p) == \E i \in 1..(Len(s) + 1) :
                     i + Len(p) - 1 <= Len(s) /\ SubSeq(s, i, i + Len(p) - 1) = p

(***************************************************************************)
(* JSON values as the body of the identity response can hold them.         *)
(***************************************************************************)
JNull == [type |-> "null"]
JStr(s) == [type |-> "string", str |-> s]
JNum(n) == [type |-> "number", num |-> n]
JBool(b) == [type |-> "boolean", bool |-> b]
JArr(es) == [type |-> "array", elems |-> es]
JObj(fs) == [type |-> "object", fields |-> fs]

\* JavaScript truthiness of a JSON value
Truthy(v) == CASE v.type = "null" -> FALSE
               [] v.type = "string" -> v.str # ""
               [] v.type = "number" -> v.num # 0
               [] v.type = "boolean" -> v.bool
               [] v.type = "undefined" -> FALSE
               [] OTHER -> TRUE

\* typeof v === "object" (true of null, arrays and objects)
TypeofObject(v) == v.type \in {"null", "array", "object"}

\* `key in v` for a value that passed the typeof check and is not null;
\* a JSON array has only index keys and "length"
HasKey(v, key) == v.type = "object" /\ key \in DOMAIN v.fields

(***************************************************************************)
(* URLs: request.nextUrl, its clones, and URLSearchParams.                 *)
(***************************************************************************)
Url(origin, pathname, searchParams) ==
    [origin |-> origin, pathname |-> pathname, searchParams |-> searchParams]

Param(name, value) == [name |-> name, value |-> value]

RECURSIVE RemoveParam(_, _)
\* the pairs of `params` whose name is not `name`, in order
RemoveParam(params, name) ==
    IF params = <<>> THEN <<>>
    ELSE IF Head(params).name = name THEN RemoveParam(Tail(params), name)
    ELSE << Head(params) >> \o RemoveParam(Tail(params), name)

RECURSIVE SearchParamsSet(_, _, _)
\* URLSearchParams.set: the first pair named `name` takes the value and the
\* later ones are removed; with no such pair one is appended
SearchParamsSet(params, name, value) ==
    IF params = <<>> THEN << Param(name, value) >>
    ELSE IF Head(params).name = name
         THEN << Param(name, value) >> \o RemoveParam(Tail(params), name)
    ELSE << Head(params) >> \o SearchParamsSet(Tail(params), name, value)

\* characters the application/x-www-form-urlencoded serializer leaves alone
FormSafe == {"a","b","c","d","e","f","g","h","i","j","k","l","m","n","o","p","q",
             "r","s","t","u","v","w","x","y","z","A","B","C","D","E","F","G","H",
             "I","J","K","L","M","N","O","P","Q","R","S","T","U","V","W","X","Y",
             "Z","0","1","2","3","4","5","6","7","8","9","*","-",".","_"}

\* the serializer on one character (the bytes the modelled strings use)
FormEncodeChar(c) ==
    IF c \in FormSafe THEN c
    ELSE CASE c = " " -> "+"
           [] c = "/" -> "%2F"
           [] c = "=" -> "%3D"
           [] c = "&" -> "%26"
           [] c = "?" -> "%3F"
           [] c = ";" -> "%3B"

RECURSIVE FormEncode(_)
FormEncode(s) ==
    IF Len(s) = 0 THEN ""
    ELSE FormEncodeChar(SubSeq(s, 1, 1)) \o FormEncode(SubSeq(s, 2, Len(s)))

RECURSIVE SerializeParams(_)
SerializeParams(params) ==
    IF params = <<>> THEN ""
    ELSE FormEncode(Head(params).name) \o "=" \o FormEncode(Head(params).value)
         \o (IF Len(params) > 1 THEN "&" \o SerializeParams(Tail(params)) ELSE "")

\* url.toString(): what fetch is called with and what a redirect's Location holds
Href(url) ==
    url.origin \o url.pathname
    \o (IF url.searchParams = <<>> THEN "" ELSE "?" \o SerializeParams(url.searchParams))

(***************************************************************************)
(* config.matcher: the framework runs middleware only on a matching path.  *)
(***************************************************************************)
StaticExtensions == {"svg", "png", "jpg", "jpeg", "gif", "webp", "ico", "css", "js"}

\* the negative lookahead of the matcher, tried on what follows the leading "/"
MatcherLookahead(rest) ==
    \/ startsWith(rest, "_next/static")
    \/ startsWith(rest, "_next/image")
    \/ (Len(rest) >= 11 /\ SubSeq(rest, 1, 7) = "favicon" /\ SubSeq(rest, 9, 11) = "ico")
    \/ \E ext \in StaticExtensions : endsWith(rest, "." \o ext)

MatcherMatches(pathname) ==
    /\ startsWith(pathname, "/")
    /\ ~MatcherLookahead(SubSeq(pathname, 2, Len(pathname)))

(***************************************************************************)
(* The route tests of middleware().                                        *)
(***************************************************************************)
SkipsMiddleware_ExactMatch(pathname) ==
    pathname \in {"/admin", "/api", "/_next", "/favicon.ico", "/demo.mp4"}

SkipsMiddleware(pathname) ==
    \/ startsWith(pathname, "/admin")
    \/ startsWith(pathname, "/api")
    \/ startsWith(pathname, "/_next")
    \/ startsWith(pathname, "/favicon.ico")
    \/ startsWith(pathname, "/demo.mp4")

isFumadocsRoute_RootPrefix(pathname) ==
    \/ startsWith(pathname, "/docs")
    \/ startsWith(pathname, "/")
    \/ startsWith(pathname, "/llms.txt")
    \/ startsWith(pathname, "/llms.mdx")
    \/ startsWith(pathname, "/llms-full.txt")
    \/ startsWith(pathname, "/docs-og")

isFumadocsRoute(pathname) ==
    \/ startsWith(pathname, "/docs")
    \/ pathname = "/"
    \/ startsWith(pathname, "/llms.txt")
    \/ startsWith(pathname, "/llms.mdx")
    \/ startsWith(pathname, "/llms-full.txt")
    \/ startsWith(pathname, "/docs-og")

(***************************************************************************)
(* The identity call and the reading of its response.                      *)
(***************************************************************************)
\* the headers of the outbound call: cookie only when present and non-empty,
\* user-agent always, "" when the request has none
IdentityHeaders(reqHeaders) ==
    LET ua == IF "user-agent" \in DOMAIN reqHeaders THEN reqHeaders["user-agent"] ELSE ""
    IN IF "cookie" \in DOMAIN reqHeaders /\ reqHeaders["cookie"] # ""
       THEN [h \in {"cookie", "user-agent"} |->
                IF h = "cookie" THEN reqHeaders["cookie"] ELSE ua]
       ELSE [h \in {"user-agent"} |-> ua]

IdentityUrl(nextUrl) == Url(nextUrl.origin, "/api/users/me", <<>>)

LoginUrl(nextUrl, pathname) ==
    Url(nextUrl.origin, "/admin/login",
        SearchParamsSet(nextUrl.searchParams, "redirect", pathname))

ResponseOk(status) == 200 <= status /\ status <= 299

NotAuthenticated(status) == ~ResponseOk(status) \/ status = 401 \/ status = 403

ContentTypeRejected_Unchecked(contentType) == FALSE

\* contentType is <<>> for an absent header, else << value >>
ContentTypeRejected(contentType) ==
    \/ contentType = <<>>
    \/ contentType[1] = ""
    \/ ~includes(contentType[1], "application/json")

JUndefined == [type |-> "undefined"]

\* obj.key of an object value
Get(v, key) == IF HasKey(v, key) THEN v.fields[key] ELSE JUndefined

UnwrapUser_DocFirst(responseData) ==
    IF Truthy(responseData) /\ TypeofObject(responseData)
    THEN IF HasKey(responseData, "user") /\ Truthy(Get(responseData, "user"))
         THEN Get(responseData, "user")
         ELSE IF HasKey(responseData, "doc") /\ Truthy(Get(responseData, "doc"))
         THEN Get(responseData, "doc")
         ELSE IF /\ HasKey(responseData, "docs")
                 /\ Get(responseData, "docs").type = "array"
                 /\ Len(Get(responseData, "docs").elems) > 0
         THEN Get(responseData, "docs").elems[1]
         ELSE responseData
    ELSE responseData

UnwrapUser(responseData) ==
    IF Truthy(responseData) /\ TypeofObject(responseData)
    THEN IF HasKey(responseData, "user") /\ Truthy(Get(responseData, "user"))
         THEN Get(responseData, "user")
         ELSE IF /\ HasKey(responseData, "docs")
                 /\ Get(responseData, "docs").type = "array"
                 /\ Len(Get(responseData, "docs").elems) > 0
         THEN Get(responseData, "docs").elems[1]
         ELSE IF HasKey(responseData, "doc") /\ Truthy(Get(responseData, "doc"))
         THEN Get(responseData, "doc")
         ELSE responseData
    ELSE responseData

InvalidUser_NoIdCheck(user) == ~Truthy(user) \/ ~TypeofObject(user)

InvalidUser(user) == ~Truthy(user) \/ ~TypeofObject(user) \/ ~HasKey(user, "id")

hasAdminAccess_AnyCase(userRole) ==
    userRole.type = "string" /\ userRole.str \in {"owner", "admin", "Owner", "Admin"}

hasAdminAccess(userRole) ==
    userRole.type = "string" /\ userRole.str \in {"owner", "admin"}

(***************************************************************************)
(* Inputs: the requests the runtime delivers and the answers the identity  *)
(* endpoint can give.                                                      *)
(***************************************************************************)
Origins == {"https://docs.example.com", "http://localhost:3000"}

\* paths that start with a skip prefix (the last three only look like one)
SkipPaths == {"/admin", "/admin/login", "/administrator", "/api/users/me", "/apiary",
              "/_next/data/x", "/_next/static/chunk.js", "/_next/image",
              "/favicon.ico", "/demo.mp4"}

\* paths under a protected rule; the last four carry a static-file extension
FumadocsPaths == {"/", "/docs/intro", "/docsify", "/llms.txt", "/llms.mdx",
                  "/llms-full.txt", "/docs-og/banner",
                  "/docs/logo.png", "/docs/app.js", "/docs-og/a/image.png",
                  "/llms.txt/site.css"}

OtherPaths == {"/about", "/pricing", "/Docs", "/llms", "/Admin", "/logo.svg"}

Paths == SkipPaths \cup FumadocsPaths \cup OtherPaths

Searches == { <<>>,
              << Param("foo", "bar") >>,
              << Param("redirect", "/evil"), Param("a", "b"), Param("redirect", "x") >> }

HeaderSets == { [h \in {"cookie", "user-agent"} |->
                    IF h = "cookie" THEN "payload-token=abc" ELSE "Mozilla"],
                [h \in {"cookie", "user-agent"} |->
                    IF h = "cookie" THEN "" ELSE "Mozilla"],
                [h \in {"user-agent"} |-> "Mozilla"],
                [h \in {"cookie"} |-> "payload-token=abc"] }

DefaultOrigin == "https://docs.example.com"
DefaultHeaders == [h \in {"cookie", "user-agent"} |->
                      IF h = "cookie" THEN "payload-token=abc" ELSE "Mozilla"]

Request(nextUrl, hs) == [nextUrl |-> nextUrl, headers |-> hs]

\* every path once, and one protected path with every origin, query string
\* and header set in turn
Requests ==
    { Request(Url(DefaultOrigin, p, <<>>), DefaultHeaders) : p \in Paths }
    \cup { Request(Url(o, "/docs/intro", <<>>), DefaultHeaders) : o \in Origins }
    \cup { Request(Url(DefaultOrigin, p, q), DefaultHeaders) :
             p \in {"/docs/intro", "/about", "/admin"}, q \in Searches }
    \cup { Request(Url(DefaultOrigin, p, <<>>), hs) :
             p \in {"/docs/intro", "/about", "/api/users/me"}, hs \in HeaderSets }

Statuses == {200, 204, 401, 403, 404, 500}

ContentTypes == { <<>>, << "" >>, << "application/json; charset=utf-8" >>, << "text/html" >> }

IdValues == {JNull, JStr(""), JStr("42")}

RoleValues == {JNull, JStr(""), JStr("admin"), JStr("owner"), JStr("Admin"), JStr("editor")}

\* objects with an optional id and an optional role
UserRecords ==
    { JObj([k \in D |-> IF k = "id" THEN iv ELSE rv]) :
        D \in SUBSET {"id", "role"}, iv \in IdValues, rv \in RoleValues }

AdminUser == JObj([k \in {"id", "role"} |-> IF k = "id" THEN JStr("42") ELSE JStr("admin")])
EditorUser == JObj([k \in {"id", "role"} |-> IF k = "id" THEN JStr("7") ELSE JStr("editor")])
AdminNoId == JObj([k \in {"role"} |-> JStr("admin")])

Primitives == {JNull, JStr(""), JStr("x"), JNum(0), JNum(1), JBool(TRUE), JBool(FALSE)}

Candidates == UserRecords \cup Primitives \cup {JArr(<<>>), JArr(<< AdminUser >>)}

OwnerUser == JObj([k \in {"id", "role"} |-> IF k = "id" THEN JStr("9") ELSE JStr("owner")])

UserMembers == {JNull, EditorUser, AdminNoId}

DocsElements == {JNull, AdminUser}

DocMembers == {JNull, OwnerUser}

RECURSIVE SeqsUpTo(_, _)
SeqsUpTo(S, n) ==
    IF n = 0 THEN { <<>> }
    ELSE SeqsUpTo(S, n - 1)
         \cup { Append(q, e) : q \in { r \in SeqsUpTo(S, n - 1) : Len(r) = n - 1 }, e \in S }

DocsValues == { JArr(es) : es \in SeqsUpTo(DocsElements, MaxDocs) } \cup { JStr("x") }

\* a `user` envelope around any candidate
UserEnvelopes == { JObj([k \in {"user"} |-> c]) : c \in Candidates }

\* several envelopes at once, with or without a record at the top level
MixedEnvelopes ==
    { JObj([k \in D \cup T |->
              CASE k = "user" -> u
                [] k = "docs" -> ds
                [] k = "doc" -> d
                [] k = "id" -> JStr("1")
                [] k = "role" -> JStr("admin")]) :
        D \in SUBSET {"user", "docs", "doc"}, T \in { {}, {"id", "role"} },
        u \in UserMembers, ds \in DocsValues, d \in DocMembers }

Bodies == Candidates \cup UserEnvelopes \cup MixedEnvelopes

(***************************************************************************)
(* One evaluation of the guard.                                            *)
(*   pc        "arrived"  the request reached the framework                *)
(*             "passed"   the matcher excluded it: middleware never ran    *)
(*             "fetching" suspended in `await fetch(...)`                  *)
(*             "parsing"  suspended in `await authResponse.json()`         *)
(*             "done"     middleware returned `response`                   *)
(*   exit      the return statement taken                                  *)
(*   calls     the outbound calls issued (fetch arguments)                 *)
(*   thrown    where the try block threw: "none", "fetch" or "json"        *)
(*   cancelled the runtime cancelled the request while it was suspended    *)
(*   kind      "client", or the follow-up that caused this request         *)
(***************************************************************************)
NewEval(request, kind, parent, depth) ==
    [ request |-> request, kind |-> kind, parent |-> parent, depth |-> depth,
      pc |-> "arrived", exit |-> "none", calls |-> <<>>, authResponse |-> <<>>,
      thrown |-> "none", responseData |-> <<>>, user |-> <<>>, response |-> <<>>,
      cancelled |-> FALSE ]

PathOf(e) == e.request.nextUrl.pathname

\* NextResponse.next()
ResponseNext == [kind |-> "next"]

\* NextResponse.redirect(loginUrl)
ResponseRedirect(loginUrl) ==
    [kind |-> "redirect", url |-> loginUrl, location |-> Href(loginUrl)]

\* new NextResponse("Forbidden: ...", { status: 403 })
ResponseForbidden ==
    [kind |-> "body", status |-> 403, body |-> "Forbidden: Admin or Owner access required"]

RedirectToLogin(e) == ResponseRedirect(LoginUrl(e.request.nextUrl, PathOf(e)))

Return(e, exit, response) ==
    [e EXCEPT !.pc = "done", !.exit = exit, !.response = << response >>]

Init == \E r \in Requests : evals = << NewEval(r, "client", 0, 0) >>

\* the matcher excludes the path: the request goes on without the guard
MatcherSkips(i) ==
    /\ evals[i].pc = "arrived"
    /\ ~MatcherMatches(PathOf(evals[i]))
    /\ evals' = [evals EXCEPT ![i].pc = "passed"]

\* lines 9-17
ReturnSkipped(i) ==
    /\ evals[i].pc = "arrived"
    /\ MatcherMatches(PathOf(evals[i]))
    /\ SkipsMiddleware(PathOf(evals[i]))
    /\ evals' = [evals EXCEPT ![i] = Return(@, "skipped", ResponseNext)]

\* lines 20-31
ReturnNotFumadocs(i) ==
    /\ evals[i].pc = "arrived"
    /\ MatcherMatches(PathOf(evals[i]))
    /\ ~SkipsMiddleware(PathOf(evals[i]))
    /\ ~isFumadocsRoute(PathOf(evals[i]))
    /\ evals' = [evals EXCEPT ![i] = Return(@, "notFumadocs", ResponseNext)]

\* lines 34-54: build the headers and the URL, issue the call, suspend
CallIdentity(i) ==
    /\ evals[i].pc = "arrived"
    /\ MatcherMatches(PathOf(evals[i]))
    /\ ~SkipsMiddleware(PathOf(evals[i]))
    /\ isFumadocsRoute(PathOf(evals[i]))
    /\ evals' = [evals EXCEPT
                   ![i].pc = "fetching",
                   ![i].calls = Append(@, [method |-> "GET",
                                           url |-> IdentityUrl(evals[i].request.nextUrl),
                                           href |-> Href(IdentityUrl(evals[i].request.nextUrl)),
                                           headers |-> IdentityHeaders(evals[i].request.headers)])]

\* fetch rejects (network failure, abort): lines 113-119
FetchRejects(i) ==
    /\ evals[i].pc = "fetching"
    /\ evals' = [evals EXCEPT
                   ![i] = Return([@ EXCEPT !.thrown = "fetch"], "caught", RedirectToLogin(@))]

\* fetch resolves: lines 56-74
FetchResolves(i, status, contentType) ==
    /\ evals[i].pc = "fetching"
    /\ LET e == [evals[i] EXCEPT
                   !.authResponse = << [status |-> status, contentType |-> contentType] >>]
       IN evals' = [evals EXCEPT ![i] =
                      IF NotAuthenticated(status)
                      THEN Return(e, "notAuthenticated", RedirectToLogin(e))
                      ELSE IF ContentTypeRejected(contentType)
                      THEN Return(e, "notJson", RedirectToLogin(e))
                      ELSE [e EXCEPT !.pc = "parsing"]]

\* authResponse.json() rejects (the body is no JSON): lines 113-119
JsonRejects(i) ==
    /\ evals[i].pc = "parsing"
    /\ evals' = [evals EXCEPT
                   ![i] = Return([@ EXCEPT !.thrown = "json"], "caught", RedirectToLogin(@))]

\* authResponse.json() resolves: lines 76-112
JsonResolves(i, responseData) ==
    /\ evals[i].pc = "parsing"
    /\ LET user == UnwrapUser(responseData)
           e == [evals[i] EXCEPT !.responseData = << responseData >>, !.user = << user >>]
       IN evals' = [evals EXCEPT ![i] =
                      IF InvalidUser(user)
                      THEN Return(e, "invalidUser", RedirectToLogin(e))
                      ELSE IF ~hasAdminAccess(Get(user, "role"))
                      THEN Return(e, "forbidden", ResponseForbidden)
                      ELSE Return(e, "allowed", ResponseNext)]

\* the runtime cancels the request while middleware is suspended; fetch is
\* called without a signal and nothing in middleware observes the cancellation
Cancel(i) ==
    /\ evals[i].pc \in {"fetching", "parsing"}
    /\ ~evals[i].cancelled
    /\ evals' = [evals EXCEPT ![i].cancelled = TRUE]

HasChild(i, kind) == \E j \in DOMAIN evals : evals[j].parent = i /\ evals[j].kind = kind

\* the client follows the redirect it was given
FollowRedirect(i) ==
    /\ evals[i].pc = "done"
    /\ evals[i].response[1].kind = "redirect"
    /\ evals[i].depth < MaxDepth
    /\ ~HasChild(i, "redirect")
    /\ evals' = Append(evals, NewEval(Request(evals[i].response[1].url,
                                              evals[i].request.headers),
                                      "redirect", i, evals[i].depth + 1))

\* the identity call, sent to the request's own origin, arrives there
IdentityCallArrives(i) ==
    /\ evals[i].pc = "fetching"
    /\ evals[i].depth < MaxDepth
    /\ ~HasChild(i, "identity")
    /\ evals' = Append(evals, NewEval(Request(evals[i].calls[1].url,
                                              evals[i].calls[1].headers),
                                      "identity", i, evals[i].depth + 1))

Next ==
    \/ \E i \in DOMAIN evals : MatcherSkips(i)
    \/ \E i \in DOMAIN evals : ReturnSkipped(i)
    \/ \E i \in DOMAIN evals : ReturnNotFumadocs(i)
    \/ \E i \in DOMAIN evals : CallIdentity(i)
    \/ \E i \in DOMAIN evals : FetchRejects(i)
    \/ \E i \in DOMAIN evals, status \in Statuses, contentType \in ContentTypes :
           FetchResolves(i, status, contentType)
    \/ \E i \in DOMAIN evals : JsonRejects(i)
    \/ \E i \in DOMAIN evals, responseData \in Bodies : JsonResolves(i, responseData)
    \/ \E i \in DOMAIN evals : Cancel(i)
    \/ \E i \in DOMAIN evals : FollowRedirect(i)
    \/ \E i \in DOMAIN evals : IdentityCallArrives(i)

Spec == Init /\ [][Next]_vars

(***************************************************************************)
(* Vocabulary of the properties, as the specification words it.            *)
(***************************************************************************)
BypassPrefixes == {"/admin", "/api", "/_next", "/favicon.ico", "/demo.mp4"}

GuardedPrefixes == {"/docs", "/llms.txt", "/llms.mdx", "/llms-full.txt", "/docs-og"}

IsBypassPath(path) == \E p \in BypassPrefixes : startsWith(path, p)

IsGuardedPath(path) ==
    /\ ~IsBypassPath(path)
    /\ (path = "/" \/ \E p \in GuardedPrefixes : startsWith(path, p))

Evals == { evals[i] : i \in DOMAIN evals }

Returned(e) == e.pc = "done"

Verdict(e) == e.response[1].kind

\* the candidate by the precedence user > docs > doc > bare
CandidateOf(body) ==
    IF body.type # "object" THEN body
    ELSE IF "user" \in DOMAIN body.fields /\ Truthy(body.fields["user"])
         THEN body.fields["user"]
    ELSE IF /\ "docs" \in DOMAIN body.fields
            /\ body.fields["docs"].type = "array"
            /\ body.fields["docs"].elems # <<>>
         THEN Head(body.fields["docs"].elems)
    ELSE IF "doc" \in DOMAIN body.fields /\ Truthy(body.fields["doc"])
         THEN body.fields["doc"]
    ELSE body

IsRecordWithId(c) == c.type = "object" /\ "id" \in DOMAIN c.fields

RoleIsOwnerOrAdmin(c) ==
    /\ "role" \in DOMAIN c.fields
    /\ c.fields["role"] \in {JStr("owner"), JStr("admin")}

StatusSuccessful(e) ==
    /\ e.authResponse # <<>>
    /\ e.authResponse[1].status \in 200..299
    /\ e.authResponse[1].status \notin {401, 403}

ContentTypeJson(e) ==
    /\ e.authResponse # <<>>
    /\ e.authResponse[1].contentType # <<>>
    /\ includes(e.authResponse[1].contentType[1], "application/json")

\* the identity call went through and its body was parsed
CleanResponse(e) ==
    /\ e.thrown = "none"
    /\ StatusSuccessful(e)
    /\ ContentTypeJson(e)
    /\ e.responseData # <<>>

Authenticated(e) == CleanResponse(e) /\ IsRecordWithId(CandidateOf(e.responseData[1]))

VerificationFailed(e) ==
    \/ e.thrown \in {"fetch", "json"}
    \/ (e.authResponse # <<>> /\ ~StatusSuccessful(e))
    \/ (e.authResponse # <<>> /\ ~ContentTypeJson(e))
    \/ (e.responseData # <<>> /\ ~IsRecordWithId(CandidateOf(e.responseData[1])))

(***************************************************************************)
(* Properties.                                                             *)
(***************************************************************************)

\* C1: on a Guarded path middleware returns pass-through only after a clean
\* identity response (no throw, successful status that is neither 401 nor
\* 403, JSON content type, parsed body) whose candidate is a record with an
\* id and whose role is exactly "owner" or "admin".
C1_FailClosed ==
    \A e \in Evals :
        (Returned(e) /\ IsGuardedPath(PathOf(e)) /\ Verdict(e) = "next")
        => /\ Authenticated(e)
           /\ RoleIsOwnerOrAdmin(CandidateOf(e.responseData[1]))

\* "/" with body {"user": {"id": "42", "role": "admin"}} is allowed
C1_Witness ==
    \E e \in Evals :
        /\ PathOf(e) = "/"
        /\ e.responseData = << JObj([k \in {"user"} |-> AdminUser]) >>
        /\ Returned(e) /\ Verdict(e) = "next"

\* C2: a path that is not Guarded (a bypass prefix, or neither bypass nor
\* guarded) is passed through and no identity call is ever made for it.
C2_UnguardedPassThrough ==
    \A e \in Evals :
        ~IsGuardedPath(PathOf(e))
        => /\ e.calls = <<>>
           /\ e.pc \in {"arrived", "passed", "done"}
           /\ (Returned(e) => e.response = << ResponseNext >>)

\* /about without a cookie header returned pass-through, no call made
C2_Witness ==
    \E e \in Evals :
        /\ PathOf(e) = "/about" /\ "cookie" \notin DOMAIN e.request.headers
        /\ Returned(e) /\ e.response = << ResponseNext >> /\ e.calls = <<>>

\* C3: on a Guarded path every verification failure (transport error, bad
\* status, content type not JSON, unparsable body, candidate not a record or
\* without an id field) yields the redirect to login.
C3_FailuresRedirect ==
    \A e \in Evals :
        (Returned(e) /\ IsGuardedPath(PathOf(e)) /\ VerificationFailed(e))
        => Verdict(e) = "redirect"

\* /docs-og/banner answered 200 with content type text/html is redirected
C3_Witness ==
    \E e \in Evals :
        /\ PathOf(e) = "/docs-og/banner"
        /\ e.authResponse = << [status |-> 200, contentType |-> << "text/html" >>] >>
        /\ Returned(e) /\ Verdict(e) = "redirect"

\* C4: on a Guarded path an authenticated user whose role is not exactly
\* "owner" or "admin" gets 403 with the fixed body, and 403 is given in that
\* case only.
C4_ForbiddenOnlyForRole ==
    \A e \in Evals :
        /\ (/\ Returned(e) /\ IsGuardedPath(PathOf(e)) /\ Authenticated(e)
            /\ ~RoleIsOwnerOrAdmin(CandidateOf(e.responseData[1])))
           => e.response = << [kind |-> "body", status |-> 403,
                               body |-> "Forbidden: Admin or Owner access required"] >>
        /\ (Returned(e) /\ Verdict(e) = "body")
           => /\ e.response[1].status = 403
              /\ IsGuardedPath(PathOf(e))
              /\ Authenticated(e)
              /\ ~VerificationFailed(e)
              /\ ~RoleIsOwnerOrAdmin(CandidateOf(e.responseData[1]))

\* a user with role "Admin" (other letter case) was answered 403
C4_Witness ==
    \E e \in Evals :
        /\ IsGuardedPath(PathOf(e)) /\ Authenticated(e)
        /\ Get(CandidateOf(e.responseData[1]), "role") = JStr("Admin")
        /\ Returned(e) /\ Verdict(e) = "body"

\* C5: the candidate is chosen by the precedence user > docs > doc > bare and
\* the verdict follows from that candidate alone.
C5_EnvelopePrecedence ==
    \A e \in Evals :
        (Returned(e) /\ e.responseData # <<>>)
        => LET c == CandidateOf(e.responseData[1])
           IN /\ e.user = << c >>
              /\ Verdict(e) = IF ~IsRecordWithId(c) THEN "redirect"
                              ELSE IF RoleIsOwnerOrAdmin(c) THEN "next"
                              ELSE "body"

\* user (an editor) wins over docs, doc and a top-level admin record
C5_Witness ==
    \E e \in Evals :
        /\ Returned(e) /\ e.responseData # <<>>
        /\ e.responseData[1].type = "object"
        /\ DOMAIN e.responseData[1].fields = {"user", "docs", "doc", "id", "role"}
        /\ e.responseData[1].fields["user"] = EditorUser
        /\ e.responseData[1].fields["docs"] = JArr(<< AdminUser >>)
        /\ e.responseData[1].fields["doc"] = OwnerUser
        /\ Verdict(e) = "body"

\* C6: a candidate whose id field is present but empty (empty string, null)
\* is handled like a missing id: the verdict is the redirect to login.
C6_EmptyIdRedirects ==
    \A e \in Evals :
        (/\ Returned(e) /\ IsGuardedPath(PathOf(e)) /\ e.responseData # <<>>
         /\ IsRecordWithId(CandidateOf(e.responseData[1]))
         /\ CandidateOf(e.responseData[1]).fields["id"] \in {JNull, JStr("")})
        => Verdict(e) = "redirect"

\* C7: every redirect goes to /admin/login on the request's own origin with
\* the query string redirect=<original path, URL-encoded> and nothing else.
C7_RedirectTarget ==
    \A e \in Evals :
        (Returned(e) /\ Verdict(e) = "redirect")
        => e.response[1].location =
             e.request.nextUrl.origin \o "/admin/login?redirect=" \o FormEncode(PathOf(e))

\* C8: every request whose path is Guarded is evaluated by the guard; none
\* goes on to the next handler without a verdict.
C8_GuardedAlwaysEvaluated ==
    \A e \in Evals : IsGuardedPath(PathOf(e)) => e.pc # "passed"

\* C9: a request cancelled while the identity call is in flight gets no
\* response: no verdict is substituted for it.
C9_CancelledNoVerdict ==
    \A e \in Evals : e.cancelled => e.response = <<>>

\* C10: the requests the guard itself causes (the redirect followed, the
\* identity call arriving) are skipped by the bypass check: each returns
\* pass-through at once with no outbound call, so no chain of evaluations
\* goes beyond one follow-up.
C10_NoSelfInterception ==
    \A e \in Evals :
        e.kind # "client"
        => /\ e.depth = 1
           /\ PathOf(e) \in {"/admin/login", "/api/users/me"}
           /\ IsBypassPath(PathOf(e))
           /\ e.pc \in {"arrived", "done"}
           /\ e.calls = <<>>
           /\ Returned(e) => (e.exit = "skipped" /\ e.response = << ResponseNext >>)

\* a redirect was followed and the identity call arrived, and both were skipped
C10_Witness ==
    /\ \E e \in Evals : e.kind = "redirect" /\ Returned(e) /\ e.exit = "skipped"
    /\ \E e \in Evals : e.kind = "identity" /\ Returned(e) /\ e.exit = "skipped"

====
